---- MODULE Spec2Model ----
(***************************************************************************)
(* A model of log_analyzer.py: the logfile selector (select_last_logfile), *)
(* the line parser generator (parse_logfile), the streaming aggregator and *)
(* finalizer (get_logfile_stats) and the driver (main).                    *)
(*                                                                         *)
(* Numbers.  A request time is held in units of 0.0001 s (so 0.1 s is      *)
(* 1000).  A value formatted with ".3f" is held in thousandths (so the     *)
(* text "75.000" is 75000).  Where a decimal value lies exactly half way   *)
(* between two neighbours, the text Python prints depends on the binary    *)
(* double behind it, which integers do not carry: both neighbours are      *)
(* possible there.  A date is the integer YYYYMMDD, whose order is the     *)
(* order of datetime.date.                                                 *)
(***************************************************************************)
EXTENDS Integers, Sequences, FiniteSets, TLC

VARIABLES
    \* get_logfile_stats
    consumed,       \* the outcomes the parser has yielded so far, in order
    stats,          \* dict URL -> URLStats, as the rows in insertion order
    total_lines,
    err_lines,
    summary_time,
    req_times,      \* defaultdict(list): URL -> durations in arrival order
    result_size,    \* the argument, 0 until the finalizer reads it
    result,         \* the returned rows
    st_pc,          \* "fold", "returned", "raised"
    st_error,       \* the exception that left get_logfile_stats, or "none"
    \* select_last_logfile
    files,          \* the list of names, in iteration order
    today,
    idx,            \* number of entries the for loop has taken
    sel,            \* the local `result`
    sel_pc,         \* "scan", "returned", "raised"
    \* parse_logfile
    logfile,        \* [isfile, data]: the file at logfile_info.path and its lines
    pos,            \* number of lines read from fd
    outcomes,       \* what the generator has yielded
    p_pc,           \* "start", "reading", "exhausted", "raised"
    p_error,        \* the exception that left the generator, or "none"
    \* main
    log_dir,        \* [exists, names]: the log directory, its files as iterdir() lists them
    content,        \* name -> lines of that log file
    report_dir,     \* [exists, reports]: the report directory, reports by date
    template_ok,    \* TEMPLATE_PATH can be read
    m_pc,           \* position in main
    m_info,         \* last_logfile_info
    m_table,        \* the number of rows of table_json
    exit_status,    \* "running", "return", "exit1"
    hist            \* history of the runs, for the properties only

statsVars == <<consumed, stats, total_lines, err_lines, summary_time, req_times,
               result_size, result, st_pc, st_error>>
selVars == <<files, idx, sel, sel_pc>>
parseVars == <<logfile, pos, outcomes, p_pc, p_error>>
mainVars == <<log_dir, content, report_dir, template_ok, m_pc, m_info, m_table,
              exit_status, hist>>
vars == <<statsVars, selVars, today, parseVars, mainVars>>

----------------------------------------------------------------------------
(* Bounds *)

MaxLines == 5
MaxResultSize == 2
ExampleReportSize == 10

(* ERROR_THRESHOLD = 0.2 as the fraction THRESHOLD_NUM / THRESHOLD_DEN *)
THRESHOLD_NUM == 1
THRESHOLD_DEN == 5

----------------------------------------------------------------------------
(* Helpers *)

Min(a, b) == IF a < b THEN a ELSE b
Max(a, b) == IF a > b THEN a ELSE b

RECURSIVE SeqSum(_)
SeqSum(s) == IF s = <<>> THEN 0 ELSE s[1] + SeqSum(Tail(s))

RECURSIVE InsertAsc(_, _)
InsertAsc(s, x) ==
    IF s = <<>> THEN <<x>>
    ELSE IF x < s[1] THEN <<x>> \o s
    ELSE <<s[1]>> \o InsertAsc(Tail(s), x)

RECURSIVE SortAsc(_)
SortAsc(s) == IF s = <<>> THEN <<>> ELSE InsertAsc(SortAsc(Tail(s)), s[1])

(* statistics.median: the middle value, or the mean of the two middle      *)
(* values, returned as the fraction <<numerator, denominator>>.            *)
median(data) ==
    LET s == SortAsc(data)
        n == Len(s)
    IN IF n % 2 = 1 THEN <<s[(n + 1) \div 2], 1>>
       ELSE <<s[n \div 2] + s[n \div 2 + 1], 2>>

(* The thousandths nearest to q + r / den, 0 <= r < den: both neighbours   *)
(* at an exact tie.                                                        *)
Nearest(q, r, den) ==
    IF 2 * r < den THEN {q} ELSE IF 2 * r = den THEN {q, q + 1} ELSE {q + 1}

(* format(x, ".3f") of x = num / den thousandths, den > 0 *)
Fmt3(num, den) == Nearest(num \div den, num % den, den)

(* format(a / den * 100.0, ".3f"), den > 0: a * 100000 / den thousandths,  *)
(* by long division so that no intermediate product leaves 32 bits.        *)
FmtPerc(a, den) ==
    LET q1 == a \div den
        r1 == a % den
        q2 == (r1 * 1000) \div den
        r2 == (r1 * 1000) % den
        q3 == (r2 * 100) \div den
        r3 == (r2 * 100) % den
    IN Nearest(q1 * 100000 + q2 * 100 + q3, r3, den)

(* float(format(x, ".3f")) of x units of 0.0001: the nearest multiple of   *)
(* 0.001; `up` decides an exact tie.                                       *)
Round3(x, up) ==
    IF x % 10 = 5 THEN (IF up THEN x + 5 ELSE x - 5)
    ELSE ((x + 5) \div 10) * 10

----------------------------------------------------------------------------
(* get_logfile_stats *)

URLs == {"/a", "/b", "/c"}

NoneInfo == [isNone |-> TRUE, URL |-> "", request_time |-> 0]
Info(u, t) == [isNone |-> FALSE, URL |-> u, request_time |-> t]

(* What the parser may yield for one line. *)
Feed ==
    {NoneInfo}
    \cup {Info("/a", t) : t \in {0, 1000, 2000, 3000}}
    \cup {Info("/b", t) : t \in {10000}}
    \cup {Info("/c", t) : t \in {5}}

URLStats(u, c, cp, ts, tp, ta, tm, md) ==
    [url |-> u, count |-> c, count_perc |-> cp, time_sum |-> ts, time_perc |-> tp,
     time_avg |-> ta, time_max |-> tm, time_med |-> md]

(* stats.get(url) is not None *)
HasKey(d, u) == \E i \in 1..Len(d) : d[i].url = u
KeyIndex(d, u) == CHOOSE i \in 1..Len(d) : d[i].url = u
Get(d, u) == d[KeyIndex(d, u)]

(* FoldLine with time_max overwritten by the latest request time. *)
FoldLineLastMax(st, info, up) ==
    IF info.isNone
    THEN [st EXCEPT !.total_lines = @ + 1, !.err_lines = @ + 1]
    ELSE LET u == info.URL
             t == info.request_time
             newStats ==
                IF ~HasKey(st.stats, u)
                THEN Append(st.stats, URLStats(u, 1, 0, t, 0, 0, t, 0))
                ELSE [st.stats EXCEPT ![KeyIndex(st.stats, u)] =
                        [@ EXCEPT !.count = @ + 1,
                                  !.time_sum = Round3(@ + t, up),
                                  !.time_max = t]]
         IN [st EXCEPT !.total_lines = @ + 1,
                       !.stats = newStats,
                       !.summary_time = @ + t,
                       !.req_times = [@ EXCEPT ![u] = Append(@, t)]]

(* The body of the for loop for one outcome `info`. *)
FoldLine(st, info, up) ==
    IF info.isNone
    THEN [st EXCEPT !.total_lines = @ + 1, !.err_lines = @ + 1]
    ELSE LET u == info.URL
             t == info.request_time
             newStats ==
                IF ~HasKey(st.stats, u)
                THEN Append(st.stats, URLStats(u, 1, 0, t, 0, 0, t, 0))
                ELSE [st.stats EXCEPT ![KeyIndex(st.stats, u)] =
                        [@ EXCEPT !.count = @ + 1,
                                  !.time_sum = Round3(@ + t, up),
                                  !.time_max = Max(@, t)]]
         IN [st EXCEPT !.total_lines = @ + 1,
                       !.stats = newStats,
                       !.summary_time = @ + t,
                       !.req_times = [@ EXCEPT ![u] = Append(@, t)]]

RECURSIVE InsertDesc(_, _)
InsertDesc(s, r) ==
    IF s = <<>> THEN <<r>>
    ELSE IF r.time_sum > s[1].time_sum THEN <<r>> \o s
    ELSE <<s[1]>> \o InsertDesc(Tail(s), r)

(* SortDesc with the sort left out. *)
SortNone(s) == s

(* sorted(rows, key=time_sum, reverse=True): stable, so rows of equal      *)
(* time_sum keep their insertion order.                                    *)
RECURSIVE SortDesc(_)
SortDesc(s) ==
    IF s = <<>> THEN <<>>
    ELSE InsertDesc(SortDesc(SubSeq(s, 1, Len(s) - 1)), s[Len(s)])

(* [:result_size] for result_size >= 0 *)
Truncate(s, n) == SubSeq(s, 1, Min(n, Len(s)))

(* err_perc > ERROR_THRESHOLD, for total > 0 *)
ThresholdExceeded(err, total) == err * THRESHOLD_DEN > total * THRESHOLD_NUM

(* FinalRows with count_perc taken over all lines, failures included. *)
FinalRowsOverTotal(elem, st) ==
    LET med == median(st.req_times[elem.url])
    IN {[elem EXCEPT !.count_perc = cp, !.time_perc = tp,
                     !.time_avg = ta, !.time_med = md] :
          cp \in FmtPerc(elem.count, st.total_lines),
          tp \in FmtPerc(elem.time_sum, st.summary_time),
          ta \in Fmt3(elem.time_sum, 10 * elem.count),
          md \in Fmt3(med[1], 10 * med[2])}

(* The rows elem._replace(...) can produce for one retained row. *)
FinalRows(elem, st) ==
    LET med == median(st.req_times[elem.url])
    IN {[elem EXCEPT !.count_perc = cp, !.time_perc = tp,
                     !.time_avg = ta, !.time_med = md] :
          cp \in FmtPerc(elem.count, st.total_lines - st.err_lines),
          tp \in FmtPerc(elem.time_sum, st.summary_time),
          ta \in Fmt3(elem.time_sum, 10 * elem.count),
          md \in Fmt3(med[1], 10 * med[2])}

(* The lists the loop over `result` can leave, row by row. *)
RECURSIVE FinalLists(_, _)
FinalLists(top, st) ==
    IF top = <<>> THEN {<<>>}
    ELSE {<<r>> \o rest : r \in FinalRows(top[1], st), rest \in FinalLists(Tail(top), st)}

(* What get_logfile_stats does once the parser is exhausted: the set of    *)
(* [error, result] it can end with.                                        *)
Finalize(st, n) ==
    IF st.total_lines = 0
    THEN {[error |-> "ZeroDivisionError", result |-> <<>>]}
    ELSE IF ThresholdExceeded(st.err_lines, st.total_lines)
    THEN {[error |-> "RuntimeError", result |-> <<>>]}
    ELSE LET top == Truncate(SortDesc(st.stats), n)
         IN IF top # <<>> /\ st.summary_time = 0
            THEN {[error |-> "ZeroDivisionError", result |-> <<>>]}
            ELSE {[error |-> "none", result |-> r] : r \in FinalLists(top, st)}

EmptyStats ==
    [stats |-> <<>>, total_lines |-> 0, err_lines |-> 0, summary_time |-> 0,
     req_times |-> [u \in URLs |-> <<>>]]

StatsState ==
    [stats |-> stats, total_lines |-> total_lines, err_lines |-> err_lines,
     summary_time |-> summary_time, req_times |-> req_times]

ResultSizes == (1..MaxResultSize) \cup {ExampleReportSize}

StatsInit ==
    /\ consumed = <<>>
    /\ stats = EmptyStats.stats
    /\ total_lines = 0
    /\ err_lines = 0
    /\ summary_time = 0
    /\ req_times = EmptyStats.req_times
    /\ result_size = 0
    /\ result = <<>>
    /\ st_pc = "fold"
    /\ st_error = "none"

(* One iteration of `for info in logfile_parser(logfile_info)`. *)
StatsLine ==
    /\ st_pc = "fold"
    /\ Len(consumed) < MaxLines
    /\ \E info \in Feed, up \in BOOLEAN :
         LET st == FoldLine(StatsState, info, up)
         IN /\ consumed' = Append(consumed, info)
            /\ stats' = st.stats
            /\ total_lines' = st.total_lines
            /\ err_lines' = st.err_lines
            /\ summary_time' = st.summary_time
            /\ req_times' = st.req_times
    /\ UNCHANGED <<result_size, result, st_pc, st_error>>

(* The parser is exhausted: the error-rate check and the finalizer. *)
StatsFinish ==
    /\ st_pc = "fold"
    /\ \E n \in ResultSizes :
         \E f \in Finalize(StatsState, n) :
            /\ result_size' = n
            /\ st_error' = f.error
            /\ result' = f.result
            /\ st_pc' = IF f.error = "none" THEN "returned" ELSE "raised"
    /\ UNCHANGED <<consumed, stats, total_lines, err_lines, summary_time, req_times>>

----------------------------------------------------------------------------
(* select_last_logfile *)

MaxFiles == 3

(* A file name, cut where the pattern cuts it: the text before the date    *)
(* (head, one character sep, tail), the eight characters of the date as    *)
(* three numbers, and what follows.                                        *)
Name(head, sep, tail, y, m, d, ext) ==
    [head |-> head, sep |-> sep, tail |-> tail, y |-> y, m |-> m, d |-> d, ext |-> ext]

Log(y, m, d, ext) == Name("nginx-access-ui", ".", "log-", y, m, d, ext)

NoName == Name("", "", "", 0, 0, 0, "")

NamePool ==
    { Log(2026, 11, 5, ""),
      Log(2026, 11, 6, ".gz"),
      Log(2026, 11, 7, ""),
      Log(2026, 11, 7, ".gz"),
      Log(2026, 13, 1, ""),
      Log(2025, 2, 29, ""),
      Log(2026, 11, 0, ".gz"),
      Log(2100, 1, 1, ""),
      Log(2026, 11, 9, ".bz2"),
      Name("nginx-access-ui", "_", "log-", 2026, 11, 8, ""),
      Name("access", ".", "log-", 2026, 11, 9, "") }

Days == {20261105, 20261106}

(* pattern_obj.match(entry) is not None:                                   *)
(* ^nginx-access-ui.log-(19\d\d|20\d\d)([01]\d)([0-3]\d)(\.gz|)$, where    *)
(* the unescaped "." stands for any one character.                         *)
PatternMatches(n) ==
    /\ n.head = "nginx-access-ui"
    /\ n.tail = "log-"
    /\ n.y \in 1900..2099
    /\ n.m \in 0..19
    /\ n.d \in 0..39
    /\ n.ext \in {"", ".gz"}

IsLeap(y) == (y % 4 = 0 /\ y % 100 # 0) \/ y % 400 = 0

DaysInMonth(y, m) ==
    IF m = 2 THEN (IF IsLeap(y) THEN 29 ELSE 28)
    ELSE IF m \in {4, 6, 9, 11} THEN 30 ELSE 31

(* datetime.date(year, month, day) does not raise ValueError *)
DateValid(y, m, d) == m \in 1..12 /\ d \in 1..DaysInMonth(y, m)

DateOf(y, m, d) == y * 10000 + m * 100 + d

(* datetime.date.min *)
DateMin == DateOf(1, 1, 1)

LogfileInfo(path, date, type) == [path |-> path, date |-> date, type |-> type]

SelStart == LogfileInfo(NoName, DateMin, "None")

(* ScanEntry that keeps the latest valid entry seen, whatever its date. *)
ScanEntryLatest(res, entry, now) ==
    IF ~PatternMatches(entry) \/ ~DateValid(entry.y, entry.m, entry.d)
    THEN [kind |-> "continue", result |-> res]
    ELSE LET cur_date == DateOf(entry.y, entry.m, entry.d)
         IN [kind |-> IF cur_date = now THEN "break" ELSE "next",
             result |-> LogfileInfo(entry, cur_date,
                                    IF entry.ext = "" THEN "PLAIN" ELSE "GZIP")]

(* ScanEntry whose except clause lets the failure of a name that does not  *)
(* match the pattern (match is None) escape.                               *)
ScanEntryRaises(res, entry, now) ==
    IF ~PatternMatches(entry)
    THEN [kind |-> "raise", result |-> res]
    ELSE IF ~DateValid(entry.y, entry.m, entry.d)
    THEN [kind |-> "continue", result |-> res]
    ELSE LET cur_date == DateOf(entry.y, entry.m, entry.d)
         IN IF cur_date > res.date
            THEN [kind |-> IF cur_date = now THEN "break" ELSE "next",
                  result |-> LogfileInfo(entry, cur_date,
                                         IF entry.ext = "" THEN "PLAIN" ELSE "GZIP")]
            ELSE [kind |-> "next", result |-> res]

(* The body of the for loop for one entry: what happens ("continue" after  *)
(* a caught exception, "next", "break") and the new `result`.              *)
ScanEntry(res, entry, now) ==
    IF ~PatternMatches(entry) \/ ~DateValid(entry.y, entry.m, entry.d)
    THEN [kind |-> "continue", result |-> res]
    ELSE LET cur_date == DateOf(entry.y, entry.m, entry.d)
         IN IF cur_date > res.date
            THEN [kind |-> IF cur_date = now THEN "break" ELSE "next",
                  result |-> LogfileInfo(entry, cur_date,
                                         IF entry.ext = "" THEN "PLAIN" ELSE "GZIP")]
            ELSE [kind |-> "next", result |-> res]

(* select_last_logfile as a whole: the final `result` (path NoName: None). *)
RECURSIVE ScanFrom(_, _, _, _)
ScanFrom(res, fs, i, now) ==
    IF i > Len(fs) THEN res
    ELSE LET s == ScanEntry(res, fs[i], now)
         IN IF s.kind = "raise" THEN LogfileInfo(NoName, DateMin, "raise")
            ELSE IF s.kind = "break" THEN s.result
            ELSE ScanFrom(s.result, fs, i + 1, now)

select_last_logfile(fs, now) == ScanFrom(SelStart, fs, 1, now)

SeqsUpTo(S, n) == UNION {[1..k -> S] : k \in 0..n}

SelInit ==
    /\ files \in SeqsUpTo(NamePool, MaxFiles)
    /\ today \in Days
    /\ idx = 0
    /\ sel = SelStart
    /\ sel_pc = "scan"

(* One iteration of `for entry in files`. *)
SelEntry ==
    /\ sel_pc = "scan"
    /\ idx < Len(files)
    /\ LET s == ScanEntry(sel, files[idx + 1], today)
       IN /\ sel' = s.result
          /\ idx' = idx + 1
          /\ sel_pc' = IF s.kind = "raise" THEN "raised"
                       ELSE IF s.kind = "break" THEN "returned"
                       ELSE "scan"
    /\ UNCHANGED <<files, today>>

(* The list is exhausted: `return result` or `return`. *)
SelReturn ==
    /\ sel_pc = "scan"
    /\ idx = Len(files)
    /\ sel_pc' = "returned"
    /\ UNCHANGED <<files, today, idx, sel>>


----------------------------------------------------------------------------
(* parse_logfile_line and parse_logfile *)

MaxFileLines == 3

(* sys.get_int_max_str_digits(): int() of a longer digit string raises     *)
(* ValueError.                                                             *)
IntMaxStrDigits == 4300

(* A line of the file, by what the parser asks of it: whether its bytes    *)
(* decode as UTF-8, whether the text matches logfile_line_pattern, the     *)
(* number of digits of $body_bytes_sent, and the captured URL and          *)
(* $request_time.                                                          *)
Line(utf8, matches, digits, u, t) ==
    [utf8 |-> utf8, matches |-> matches, bytes_digits |-> digits,
     URL |-> u, request_time |-> t]

GoodLine == Line(TRUE, TRUE, 3, "/a", 1000)
ZeroLine == Line(TRUE, TRUE, 3, "/b", 0)
WrongLine == Line(TRUE, FALSE, 0, "", 0)
HugeLine == Line(TRUE, TRUE, 5000, "/a", 1000)
BinaryLine == Line(FALSE, FALSE, 0, "", 0)

LinePool == {GoodLine, ZeroLine, WrongLine, HugeLine, BinaryLine}

(* parse_logfile_line: the record, or the ValueError it raises. *)
parse_logfile_line(line) ==
    IF ~line.matches THEN [error |-> "ValueError", info |-> NoneInfo]
    ELSE IF line.bytes_digits > IntMaxStrDigits
    THEN [error |-> "ValueError", info |-> NoneInfo]
    ELSE [error |-> "none", info |-> Info(line.URL, line.request_time)]

(* One turn of `for line_binary in fd`: str(line_binary, "utf-8") outside  *)
(* the try, then the try / except ValueError around the line parser.       *)
ParseStep(line) ==
    IF ~line.utf8 THEN [error |-> "UnicodeDecodeError", info |-> NoneInfo]
    ELSE LET r == parse_logfile_line(line)
         IN [error |-> "none", info |-> IF r.error = "ValueError" THEN NoneInfo ELSE r.info]

(* The generator run to its end: what it yielded and how it ended. *)
RECURSIVE ParseFrom(_, _, _)
ParseFrom(data, i, acc) ==
    IF i > Len(data) THEN [error |-> "none", outcomes |-> acc]
    ELSE LET r == ParseStep(data[i])
         IN IF r.error # "none" THEN [error |-> r.error, outcomes |-> acc]
            ELSE ParseFrom(data, i + 1, Append(acc, r.info))

parse_logfile(f) ==
    IF ~f.isfile THEN [error |-> "ValueError", outcomes |-> <<>>]
    ELSE ParseFrom(f.data, 1, <<>>)

ParseInit ==
    /\ logfile \in {[isfile |-> FALSE, data |-> <<>>]}
                   \cup {[isfile |-> TRUE, data |-> d] : d \in SeqsUpTo(LinePool, MaxFileLines)}
    /\ pos = 0
    /\ outcomes = <<>>
    /\ p_pc = "start"
    /\ p_error = "none"

(* The first pull reaches the os.path.isfile check and opens the file. *)
ParseOpen ==
    /\ p_pc = "start"
    /\ IF logfile.isfile
       THEN p_pc' = "reading" /\ p_error' = "none"
       ELSE p_pc' = "raised" /\ p_error' = "ValueError"
    /\ UNCHANGED <<logfile, pos, outcomes>>

(* The generator reads the next line and yields its outcome, or raises. *)
ParseLine ==
    /\ p_pc = "reading"
    /\ pos < Len(logfile.data)
    /\ LET r == ParseStep(logfile.data[pos + 1])
       IN /\ pos' = pos + 1
          /\ IF r.error = "none"
             THEN outcomes' = Append(outcomes, r.info) /\ UNCHANGED <<p_pc, p_error>>
             ELSE p_pc' = "raised" /\ p_error' = r.error /\ UNCHANGED outcomes
    /\ UNCHANGED logfile

(* fd is at its end: the generator returns. *)
ParseEnd ==
    /\ p_pc = "reading"
    /\ pos = Len(logfile.data)
    /\ p_pc' = "exhausted"
    /\ UNCHANGED <<logfile, pos, outcomes, p_error>>

----------------------------------------------------------------------------
(* get_logfile_stats as a whole, and main *)

MaxRuns == 2
LastDay == 20261107

(* config["REPORT_SIZE"] *)
REPORT_SIZE == 1000

RECURSIVE FoldFrom(_, _, _)
FoldFrom(S, outs, i) ==
    IF i > Len(outs) THEN S
    ELSE FoldFrom({FoldLine(st, outs[i], up) : st \in S, up \in BOOLEAN}, outs, i + 1)

(* get_logfile_stats(logfile_info, parse_logfile, n): the [error, result]  *)
(* it can end with.  An exception of the generator passes through it.      *)
get_logfile_stats(f, n) ==
    LET p == parse_logfile(f)
    IN IF p.error # "none" THEN {[error |-> p.error, result |-> <<>>]}
       ELSE UNION {Finalize(st, n) : st \in FoldFrom({EmptyStats}, p.outcomes, 1)}

(* report_already_exists that never finds the report. *)
ReportNeverFound(dir, date) == IF ~dir.exists THEN "ValueError" ELSE "False"

(* report_already_exists: "ValueError", or whether the report is there. *)
report_already_exists(dir, date) ==
    IF ~dir.exists THEN "ValueError"
    ELSE IF date \in dir.reports THEN "True" ELSE "False"

MainNames ==
    { Log(2026, 11, 5, ""), Log(2026, 11, 6, ".gz"),
      Name("access", ".", "log-", 2026, 11, 9, "") }

MainLogs == {n \in MainNames : PatternMatches(n)}

MainContents == {<<>>, <<GoodLine>>, <<WrongLine>>, <<GoodLine, BinaryLine>>}

MainDates == {DateOf(n.y, n.m, n.d) : n \in MainLogs}

(* The orders in which iterdir() may list a set of names; an unchanged     *)
(* directory is listed in the same order by every run.                     *)
Orders(S) ==
    {o \in [1..Cardinality(S) -> S] : \A i, j \in 1..Cardinality(S) : o[i] = o[j] => i = j}

NewRun(h) ==
    [run |-> h.run + 1, parsed |-> FALSE, wrote |-> FALSE, seen |-> FALSE,
     checked |-> FALSE, order_ok |-> TRUE,
     prior |-> h.rendered, rendered |-> h.rendered]

MainInit ==
    /\ log_dir \in {[exists |-> FALSE, names |-> <<>>]}
                   \cup {[exists |-> TRUE, names |-> o] :
                           o \in UNION {Orders(S) : S \in SUBSET MainNames}}
    /\ content \in [MainLogs -> MainContents]
    /\ report_dir \in {[exists |-> FALSE, reports |-> {}]}
                      \cup {[exists |-> TRUE, reports |-> S] : S \in SUBSET MainDates}
    /\ template_ok \in BOOLEAN
    /\ today \in Days
    /\ m_pc = "idle"
    /\ m_info = SelStart
    /\ m_table = 0
    /\ exit_status = "return"
    /\ hist = [run |-> 0, parsed |-> FALSE, wrote |-> FALSE, seen |-> FALSE,
               checked |-> FALSE, order_ok |-> TRUE,
               prior |-> {}, rendered |-> {}]

(* The process starts: main is entered. *)
MainStart ==
    /\ m_pc = "idle"
    /\ hist.run < MaxRuns
    /\ m_pc' = "select"
    /\ m_info' = SelStart
    /\ m_table' = 0
    /\ exit_status' = "running"
    /\ hist' = NewRun(hist)
    /\ UNCHANGED <<log_dir, content, report_dir, template_ok, today>>

(* get_last_logfile_info(LOG_DIR) and the `is None` test after it. *)
MainSelect ==
    /\ m_pc = "select"
    /\ IF ~log_dir.exists
       THEN /\ m_pc' = "idle"
            /\ exit_status' = "exit1"
            /\ UNCHANGED <<m_info, hist>>
       ELSE LET info == select_last_logfile(log_dir.names, today)
            IN /\ m_info' = info
               /\ UNCHANGED hist
               /\ IF info.path = NoName
                  THEN m_pc' = "idle" /\ exit_status' = "return"
                  ELSE m_pc' = "check" /\ UNCHANGED exit_status
    /\ UNCHANGED <<log_dir, content, report_dir, template_ok, today, m_table>>

(* report_already_exists(REPORT_DIR, date) and the early return. *)
MainCheck ==
    /\ m_pc = "check"
    /\ LET r == report_already_exists(report_dir, m_info.date)
       IN /\ m_pc' = IF r = "False" THEN "stats" ELSE "idle"
          /\ exit_status' = IF r = "ValueError" THEN "exit1"
                            ELSE IF r = "True" THEN "return" ELSE exit_status
          /\ hist' = [hist EXCEPT !.checked = TRUE, !.seen = (r = "True"),
                                  !.order_ok = @ /\ ~hist.parsed]
    /\ UNCHANGED <<log_dir, content, report_dir, template_ok, today, m_info, m_table>>

(* table_json = [... for stats in get_logfile_stats(...)] *)
MainStats ==
    /\ m_pc = "stats"
    /\ \E f \in get_logfile_stats([isfile |-> TRUE, data |-> content[m_info.path]],
                                  REPORT_SIZE) :
         /\ m_table' = Len(f.result)
         /\ m_pc' = IF f.error = "none" THEN "render" ELSE "idle"
         /\ exit_status' = IF f.error = "none" THEN exit_status ELSE "exit1"
    /\ hist' = [hist EXCEPT !.parsed = TRUE, !.order_ok = @ /\ hist.checked]
    /\ UNCHANGED <<log_dir, content, report_dir, template_ok, today, m_info>>

(* render_template(table_json, REPORT_DIR / report_date(date)) *)
MainRender ==
    /\ m_pc = "render"
    /\ m_pc' = "idle"
    /\ IF template_ok
       THEN /\ report_dir' = [report_dir EXCEPT !.reports = @ \cup {m_info.date}]
            /\ exit_status' = "return"
            /\ hist' = [hist EXCEPT !.wrote = TRUE,
                                    !.rendered = @ \cup {[date |-> m_info.date, day |-> today]}]
       ELSE /\ exit_status' = "exit1"
            /\ UNCHANGED <<report_dir, hist>>
    /\ UNCHANGED <<log_dir, content, template_ok, today, m_info, m_table>>

(* Midnight passes between two runs. *)
Tick ==
    /\ m_pc = "idle"
    /\ today < LastDay
    /\ today' = today + 1
    /\ UNCHANGED mainVars

----------------------------------------------------------------------------
(* Specifications *)

StatsIdle ==
    /\ consumed = <<>> /\ stats = <<>> /\ total_lines = 0 /\ err_lines = 0
    /\ summary_time = 0 /\ req_times = EmptyStats.req_times /\ result_size = 0
    /\ result = <<>> /\ st_pc = "fold" /\ st_error = "none"
SelIdle == files = <<>> /\ idx = 0 /\ sel = SelStart /\ sel_pc = "scan"
ParseIdle ==
    /\ logfile = [isfile |-> FALSE, data |-> <<>>] /\ pos = 0 /\ outcomes = <<>>
    /\ p_pc = "start" /\ p_error = "none"
MainIdle ==
    /\ log_dir = [exists |-> FALSE, names |-> <<>>] /\ content = <<>>
    /\ report_dir = [exists |-> FALSE, reports |-> {}] /\ template_ok = FALSE
    /\ m_pc = "idle" /\ m_info = SelStart /\ m_table = 0 /\ exit_status = "return"
    /\ hist = <<>>

(* get_logfile_stats fed by any parser. *)
Init == StatsInit /\ SelIdle /\ today = 20261105 /\ ParseIdle /\ MainIdle
Next ==
    \/ StatsLine /\ UNCHANGED <<selVars, today, parseVars, mainVars>>
    \/ StatsFinish /\ UNCHANGED <<selVars, today, parseVars, mainVars>>
Spec == Init /\ [][Next]_vars

(* select_last_logfile on any list of names. *)
InitSelect == SelInit /\ StatsIdle /\ ParseIdle /\ MainIdle
NextSelect ==
    \/ SelEntry /\ UNCHANGED <<statsVars, parseVars, mainVars>>
    \/ SelReturn /\ UNCHANGED <<statsVars, parseVars, mainVars>>
SpecSelect == InitSelect /\ [][NextSelect]_vars

(* parse_logfile on any file. *)
InitParse == ParseInit /\ StatsIdle /\ SelIdle /\ today = 20261105 /\ MainIdle
NextParse ==
    \/ ParseOpen /\ UNCHANGED <<statsVars, selVars, today, mainVars>>
    \/ ParseLine /\ UNCHANGED <<statsVars, selVars, today, mainVars>>
    \/ ParseEnd /\ UNCHANGED <<statsVars, selVars, today, mainVars>>
SpecParse == InitParse /\ [][NextParse]_vars

(* Runs of main, one after the other, over one pair of directories. *)
InitMain == MainInit /\ StatsIdle /\ SelIdle /\ ParseIdle
NextMain ==
    \/ MainStart /\ UNCHANGED <<statsVars, selVars, parseVars>>
    \/ MainSelect /\ UNCHANGED <<statsVars, selVars, parseVars>>
    \/ MainCheck /\ UNCHANGED <<statsVars, selVars, parseVars>>
    \/ MainStats /\ UNCHANGED <<statsVars, selVars, parseVars>>
    \/ MainRender /\ UNCHANGED <<statsVars, selVars, parseVars>>
    \/ Tick /\ UNCHANGED <<statsVars, selVars, parseVars>>
SpecMain == InitMain /\ [][NextMain]_vars


----------------------------------------------------------------------------
(* What the outcomes fed to get_logfile_stats say, counted from `consumed` *)
(* alone.                                                                  *)

Records == SelectSeq(consumed, LAMBDA o : ~o.isNone)
Failures == Len(consumed) - Len(Records)

TimesOf(u) ==
    LET own == SelectSeq(consumed, LAMBDA o : ~o.isNone /\ o.URL = u)
    IN [i \in 1..Len(own) |-> own[i].request_time]

AllTimes == [i \in 1..Len(Records) |-> Records[i].request_time]

SeenURLs == {u \in URLs : TimesOf(u) # <<>>}

(* The k-th smallest value of a list. *)
Kth(ts, k) ==
    CHOOSE v \in {ts[i] : i \in 1..Len(ts)} :
        /\ Cardinality({i \in 1..Len(ts) : ts[i] < v}) < k
        /\ Cardinality({i \in 1..Len(ts) : ts[i] <= v}) >= k

(* Twice the median of a non-empty list. *)
TwiceMedian(ts) ==
    LET n == Len(ts)
    IN IF n % 2 = 1 THEN 2 * Kth(ts, (n + 1) \div 2)
       ELSE Kth(ts, n \div 2) + Kth(ts, n \div 2 + 1)

MaxOf(ts) == CHOOSE v \in {ts[i] : i \in 1..Len(ts)} : \A i \in 1..Len(ts) : ts[i] <= v

(* Every duration is an exact multiple of 0.001 s. *)
MillisOnly == \A i \in 1..Len(Records) : Records[i].request_time % 10 = 0

SameBag(ts, S) == Len(ts) = Cardinality(S) /\ {ts[i] : i \in 1..Len(ts)} = S

(* The end-to-end example: /a with 0.1, 0.2, 0.3 and /b with 1.0, no       *)
(* failures, REPORT_SIZE = 10.                                             *)
ExampleRun ==
    /\ Failures = 0
    /\ SameBag(TimesOf("/a"), {1000, 2000, 3000})
    /\ TimesOf("/b") = <<10000>>
    /\ TimesOf("/c") = <<>>
    /\ result_size = ExampleReportSize

----------------------------------------------------------------------------
(* Claims about get_logfile_stats (specification Spec) *)

(* C1: for a non-empty sequence of outcomes the call fails with the        *)
(* error-rate error if and only if 5 * error_lines > total_lines; below    *)
(* or at the threshold it returns rows and raises nothing; when it fails   *)
(* it returns no rows.                                                     *)
C1_ErrorRateDecides ==
    (st_pc # "fold" /\ Len(consumed) > 0) =>
        /\ (st_pc = "raised" <=> 5 * Failures > Len(consumed))
        /\ (st_pc = "raised" => st_error = "RuntimeError" /\ result = <<>>)
        /\ (5 * Failures <= Len(consumed) => st_pc = "returned" /\ st_error = "none")

(* C5: on an empty log (zero lines) get_logfile_stats divides by nothing   *)
(* and fails with no error: it returns.                                    *)
C5_EmptyLogNoError ==
    (st_pc # "fold" /\ Len(consumed) = 0) => (st_pc = "returned" /\ st_error = "none")

(* C8: with durations that are multiples of 0.001, every returned row has  *)
(* count_perc = count / (total_lines - error_lines) * 100, time_perc =     *)
(* time_sum / summary_time * 100 over ALL valid lines, time_avg =          *)
(* time_sum / count and time_med = the median of the URL's durations, each *)
(* to 3 decimals, with count, time_sum and the durations as the outcomes   *)
(* give them; and the example yields /b then /a with the stated values.    *)
C8_RowFormulas ==
    (st_pc = "returned" /\ MillisOnly) =>
        /\ \A i \in 1..Len(result) :
             LET r == result[i]
                 ts == TimesOf(r.url)
             IN /\ ts # <<>>
                /\ r.count = Len(ts)
                /\ r.time_sum = SeqSum(ts)
                /\ r.count_perc \in FmtPerc(Len(ts), Len(consumed) - Failures)
                /\ r.time_perc \in FmtPerc(SeqSum(ts), SeqSum(AllTimes))
                /\ r.time_avg \in Fmt3(SeqSum(ts), 10 * Len(ts))
                /\ r.time_med \in Fmt3(TwiceMedian(ts), 20)
        /\ ExampleRun =>
             /\ Len(result) = 2
             /\ result[1].url = "/b" /\ result[1].time_sum = 10000
             /\ result[1].count_perc = 25000
             /\ result[2].url = "/a" /\ result[2].time_sum = 6000
             /\ result[2].time_med = 200 /\ result[2].time_avg = 200
             /\ result[2].count_perc = 75000

(* C8 witness: the example has been aggregated and returned. *)
C8_Witness == st_pc = "returned" /\ ExampleRun

(* C9: a successful call with report size N > 0 and D distinct URLs        *)
(* returns exactly min(N, D) rows, each for a different URL, in descending *)
(* order of time_sum, and every URL left out has a time_sum not above that *)
(* of any retained row.                                                    *)
C9_TopN ==
    (st_pc = "returned" /\ result_size > 0) =>
        /\ Len(result) = Min(result_size, Cardinality(SeenURLs))
        /\ \A i \in 1..Len(result) : result[i].url \in SeenURLs
        /\ \A i, j \in 1..Len(result) : result[i].url = result[j].url => i = j
        /\ \A i \in 1..(Len(result) - 1) : result[i].time_sum >= result[i + 1].time_sum
        /\ \A k \in 1..Len(stats) :
             (\A i \in 1..Len(result) : result[i].url # stats[k].url) =>
                 \A i \in 1..Len(result) : stats[k].time_sum <= result[i].time_sum

(* C9 witness: three URLs, two rows kept out of insertion order, one URL   *)
(* left out.                                                               *)
C9_Witness ==
    /\ st_pc = "returned"
    /\ Len(stats) = 3
    /\ Len(result) = 2
    /\ result[1].url # stats[1].url
    /\ result[1].time_sum > result[2].time_sum

(* C10, the running state: total_lines and error_lines count the outcomes  *)
(* and the failure markers consumed; per URL count = length of its         *)
(* duration list and time_max = its maximum; the counts add up to          *)
(* total_lines - error_lines.                                              *)
C10_Inv ==
    /\ total_lines = Len(consumed)
    /\ err_lines = Failures
    /\ \A u \in URLs : req_times[u] = TimesOf(u)
    /\ \A u \in URLs : HasKey(stats, u) <=> req_times[u] # <<>>
    /\ \A k \in 1..Len(stats) :
         /\ stats[k].count = Len(req_times[stats[k].url])
         /\ stats[k].time_max = MaxOf(req_times[stats[k].url])
    /\ SeqSum([k \in 1..Len(stats) |-> stats[k].count]) = total_lines - err_lines

SameAccumulator(u) ==
    /\ req_times'[u] = req_times[u]
    /\ HasKey(stats', u) <=> HasKey(stats, u)
    /\ HasKey(stats, u) => Get(stats', u) = Get(stats, u)

(* C10, one line: a failure marker changes only total_lines and            *)
(* error_lines; a record for URL u changes only u's accumulator, u's       *)
(* duration list, total_lines and summary_time; nothing decreases.         *)
C10_Step ==
    /\ total_lines' >= total_lines
    /\ err_lines' >= err_lines
    /\ \A u \in URLs : HasKey(stats, u) =>
         HasKey(stats', u) /\ Get(stats', u).count >= Get(stats, u).count
    /\ consumed' # consumed =>
         LET info == consumed'[Len(consumed')]
         IN /\ total_lines' = total_lines + 1
            /\ IF info.isNone
               THEN /\ err_lines' = err_lines + 1
                    /\ stats' = stats
                    /\ req_times' = req_times
                    /\ summary_time' = summary_time
               ELSE /\ err_lines' = err_lines
                    /\ summary_time' = summary_time + info.request_time
                    /\ req_times'[info.URL] = Append(req_times[info.URL], info.request_time)
                    /\ \A u \in URLs \ {info.URL} : SameAccumulator(u)

(* C10: the invariants hold after every line and every line changes only   *)
(* what it may.                                                            *)
C10_RunningState == []C10_Inv /\ [][C10_Step]_vars

(* C10 witness: a failure marker and two records of one URL, the later one *)
(* the shorter, have been folded.                                          *)
C10_Witness ==
    /\ st_pc = "fold"
    /\ err_lines >= 1
    /\ \E k \in 1..Len(stats) :
         LET ts == req_times[stats[k].url]
         IN Len(ts) >= 2 /\ ts[Len(ts)] < stats[k].time_max

----------------------------------------------------------------------------
(* Claims about select_last_logfile (specification SpecSelect) *)

(* The positions of the names that match the pattern and embed a calendar  *)
(* date, among the first n names of the list.                              *)
Usable(n) ==
    {i \in 1..n : PatternMatches(files[i]) /\ DateValid(files[i].y, files[i].m, files[i].d)}

EntryDate(i) == DateOf(files[i].y, files[i].m, files[i].d)

IsMaxDate(d, n) ==
    /\ \E i \in Usable(n) : EntryDate(i) = d
    /\ \A i \in Usable(n) : EntryDate(i) <= d

----------------------------------------------------------------------------
(* Claim about parse_logfile (specification SpecParse) *)

LineUsable(l) == l.utf8 /\ l.matches /\ l.bytes_digits <= IntMaxStrDigits

(* C7: every line yields exactly one outcome, in file order, a record if   *)
(* the line is usable and a failure marker otherwise; no unusable line     *)
(* (grammar mismatch, numeric coercion failure, undecodable bytes) ends    *)
(* the sequence early or raises out of the parser.                         *)
C7_OneOutcomePerLine ==
    logfile.isfile =>
        /\ p_pc # "raised"
        /\ Len(outcomes) = pos
        /\ \A i \in 1..Len(outcomes) :
             outcomes[i] = (IF LineUsable(logfile.data[i])
                            THEN Info(logfile.data[i].URL, logfile.data[i].request_time)
                            ELSE NoneInfo)
        /\ p_pc = "exhausted" => Len(outcomes) = Len(logfile.data)

----------------------------------------------------------------------------
(* Claims about main (specification SpecMain) *)

RunOver == hist.run >= 1 /\ m_pc = "idle"

PriorDates == {p.date : p \in hist.prior}

LogDates ==
    {DateOf(n.y, n.m, n.d) :
        n \in {x \in {log_dir.names[i] : i \in 1..Len(log_dir.names)} :
                 PatternMatches(x) /\ DateValid(x.y, x.m, x.d)}}

(* The part of C4 about one run: the report-exists check comes before any  *)
(* parsing, and a run that finds the report parses nothing, writes nothing *)
(* and returns cleanly.                                                    *)
C4_CheckFirst ==
    /\ hist.run >= 1 => hist.order_ok
    /\ (hist.run >= 1 /\ hist.parsed) => (hist.checked /\ ~hist.seen)
    /\ (hist.run >= 1 /\ hist.seen) =>
         (~hist.parsed /\ ~hist.wrote /\ m_table = 0 /\ exit_status = "return")

(* C4, as stated: moreover, after a run that rendered the report, a later  *)
(* run against the same log directory and report directory performs no     *)
(* aggregation.                                                            *)
C4_SecondRunIdle ==
    /\ C4_CheckFirst
    /\ (hist.run >= 1 /\ hist.prior # {}) => ~hist.parsed

(* C4, amended: moreover, after a run that rendered the report, a later    *)
(* run that selects the same log date performs no aggregation; it does     *)
(* select that date whenever the log directory holds no log dated after    *)
(* the day of the rendering run.                                           *)
C4_SameLogIdle ==
    /\ C4_CheckFirst
    /\ (hist.run >= 1 /\ m_pc # "select" /\ m_info.path # NoName
          /\ m_info.date \in PriorDates) => ~hist.parsed
    /\ (hist.run >= 1 /\ \E p \in hist.prior : \A d \in LogDates : d <= p.day) =>
         /\ ~hist.parsed
         /\ (m_pc # "select" /\ log_dir.exists) => m_info.date \in PriorDates

(* C4 witness: a second run has found the report the first run rendered    *)
(* and has returned.                                                       *)
C4_Witness ==
    /\ hist.run = 2
    /\ m_pc = "idle"
    /\ hist.seen
    /\ m_info.date \in PriorDates
    /\ exit_status = "return"

(* C6: in every run where the log directory or the report directory is     *)
(* missing, the process exits with status 1 without parsing and without    *)
(* writing, whatever the other directory holds.                            *)
C6_MissingDirFatal ==
    (RunOver /\ (~log_dir.exists \/ ~report_dir.exists)) =>
        (exit_status = "exit1" /\ ~hist.parsed /\ ~hist.wrote)

====
